---- MODULE Spec2Model ----
(***************************************************************************)
(* Super multiset RSK (super_multiset_tableaux.py): the signed order on    *)
(* values, the order on multisets, (parity)-insertion and -extraction on   *)
(* a tableau of multisets, the order and the validity predicates of        *)
(* biwords, and sRSK with its inverse.                                     *)
(*                                                                         *)
(* Coordinates are the code's: 0-based, [x, y] = [column, row]; a TLA+     *)
(* sequence is indexed from 1, so cell (x, y) is T[y + 1][x + 1].          *)
(***************************************************************************)
EXTENDS Integers, Sequences, FiniteSets, TLC

VARIABLES cmp, T, op, ex, biword, pc, P, Q, k, iP, iQ, out

vars == <<cmp, T, op, ex, biword, pc, P, Q, k, iP, iQ, out>>

(* ------------------------------ bounds -------------------------------- *)

\* largest magnitude of a value given to SuperValue
MaxVal == 3
\* largest number of elements of an input array of a multiset
MaxMsLen == 2
\* largest number of cells of a tableau built by insert calls
MaxCells == 5
\* largest number of biletters of a biword given to sRSK
MaxWordLen == 3

\* Python's None (a function that falls off its end returns it)
None == [none |-> TRUE]

(* ------------------------------ SuperValue ---------------------------- *)

\* two barred values compared as plain integers
SuperValue_lt_raw(a, b) ==
    IF a < 0
    THEN IF b < 0 THEN a < b ELSE FALSE
    ELSE IF b < 0 THEN TRUE ELSE a < b

\* SuperValue.__lt__: every barred (negative) value is larger than every
\* unbarred one; two barred values compare as their negatives.
SuperValue_lt(a, b) ==
    IF a < 0
    THEN IF b < 0 THEN a > b ELSE FALSE
    ELSE IF b < 0 THEN TRUE ELSE a < b

\* SuperValue.__eq__
SuperValue_eq(a, b) == a = b

\* functools.total_ordering: __gt__ is (not __lt__) and (not __eq__)
SuperValue_gt(a, b) == ~SuperValue_lt(a, b) /\ ~SuperValue_eq(a, b)

\* _parity on an int: 1 if negative, else 0
_parity(x) == IF x < 0 THEN 1 ELSE 0

(* ------------------------------ SuperMultiSet ------------------------- *)

\* one step of a stable sort: v goes before the first element larger than v
RECURSIVE PlaceValue(_, _)
PlaceValue(s, v) ==
    IF s = <<>> THEN <<v>>
    ELSE IF SuperValue_lt(v, s[1]) THEN <<v>> \o s
    ELSE <<s[1]>> \o PlaceValue(Tail(s), v)

\* the same step with the elements compared as plain integers
RECURSIVE PlaceValueRaw(_, _)
PlaceValueRaw(s, v) ==
    IF s = <<>> THEN <<v>>
    ELSE IF v < s[1] THEN <<v>> \o s
    ELSE <<s[1]>> \o PlaceValueRaw(Tail(s), v)

\* the elements sorted as plain integers
RECURSIVE SortedValuesRaw(_)
SortedValuesRaw(s) ==
    IF s = <<>> THEN <<>>
    ELSE PlaceValueRaw(SortedValuesRaw(SubSeq(s, 1, Len(s) - 1)), s[Len(s)])

\* sorted(list of SuperValue): ascending under SuperValue.__lt__, stable
RECURSIVE SortedValues(_)
SortedValues(s) ==
    IF s = <<>> THEN <<>>
    ELSE PlaceValue(SortedValues(SubSeq(s, 1, Len(s) - 1)), s[Len(s)])

IsUnbarred(x) == _parity(x) = 0
IsBarred(x) == _parity(x) = 1

\* SuperMultiSet.__init__ on a list of integers
SuperMultiSet(array) ==
    [unbarred |-> SortedValues(SelectSeq(array, IsUnbarred)),
     barred   |-> SortedValues(SelectSeq(array, IsBarred))]

\* SuperMultiSet.__iter__ (as list(self)): the unbarred, then the barred
MS_list(A) == A.unbarred \o A.barred

\* SuperMultiSet.__len__
MS_len(A) == Len(A.unbarred) + Len(A.barred)

\* SuperMultiSet.parity
MS_parity(A) == Len(A.barred) % 2

\* SuperMultiSet.__eq__
MS_eq(A, B) == A.unbarred = B.unbarred /\ A.barred = B.barred

\* max(list of SuperValue): the first element no later one is greater than
RECURSIVE MaxValue(_)
MaxValue(s) ==
    IF Len(s) = 1 THEN s[1]
    ELSE LET m == MaxValue(SubSeq(s, 1, Len(s) - 1))
         IN  IF SuperValue_gt(s[Len(s)], m) THEN s[Len(s)] ELSE m

\* SuperMultiSet.__lt__(self, other, i)
RECURSIVE MS_lt_from(_, _, _)
MS_lt_from(A, B, i) ==
    LET ls == MS_len(A) - i
        lo == MS_len(B) - i
    IN  IF ls = 0 /\ lo = 0 THEN FALSE
        ELSE IF ls = 0 /\ lo > 0 THEN TRUE
        ELSE IF ls > 0 /\ lo = 0 THEN FALSE
        ELSE LET smax == MaxValue(SubSeq(MS_list(A), 1, ls))
                 omax == MaxValue(SubSeq(MS_list(B), 1, lo))
             IN  IF SuperValue_lt(smax, omax) THEN TRUE
                 ELSE IF SuperValue_gt(smax, omax) THEN FALSE
                 ELSE MS_lt_from(A, B, i + 1)

MS_lt(A, B) == MS_lt_from(A, B, 0)

\* functools.total_ordering on SuperMultiSet
MS_gt(A, B) == ~MS_lt(A, B) /\ ~MS_eq(A, B)
MS_ge(A, B) == ~MS_lt(A, B)
MS_le(A, B) == MS_lt(A, B) \/ MS_eq(A, B)

(* ------------------------ SuperMultiSetPartitionTableau --------------- *)

SetMin(S) == CHOOSE m \in S : \A n \in S : m <= n
SetMax(S) == CHOOSE m \in S : \A n \in S : m >= n

\* SuperMultiSetPartitionTableau.__init__ on a list of rows of arrays
SMPT(tableau) ==
    [y \in 1..Len(tableau) |->
        [x \in 1..Len(tableau[y]) |-> SuperMultiSet(tableau[y][x])]]

\* the copy SMPT(P._tableau): every cell SuperMultiSet(A) of a SuperMultiSet A
SMPT_copy(t) ==
    [y \in 1..Len(t) |->
        [x \in 1..Len(t[y]) |->
            [unbarred |-> SubSeq(t[y][x].unbarred, 1, Len(t[y][x].unbarred)),
             barred   |-> SubSeq(t[y][x].barred, 1, Len(t[y][x].barred))]]]

\* both insertions bump on B >= A
BumpsWeak(parity, B, A) ==
    (parity = 0 /\ MS_ge(B, A)) \/ (parity = 1 /\ MS_ge(B, A))

\* the bump test of insert: 0-insertion bumps the first B > A,
\* 1-insertion the first B >= A
Bumps(parity, B, A) ==
    (parity = 0 /\ MS_gt(B, A)) \/ (parity = 1 /\ MS_ge(B, A))

\* both extractions un-bump on B < A
UnbumpsStrict(parity, B, A) ==
    (parity = 0 /\ MS_lt(B, A)) \/ (parity = 1 /\ MS_lt(B, A))

\* the test of extract: 0-extraction un-bumps the last B < A,
\* 1-extraction the last B <= A
Unbumps(parity, B, A) ==
    (parity = 0 /\ MS_lt(B, A)) \/ (parity = 1 /\ MS_le(B, A))

\* col = [row[x] for row in self if x < len(row)]
Column(t, x) ==
    LET Wide(row) == x < Len(row)
        rows == SelectSeq(t, Wide)
    IN  [j \in 1..Len(rows) |-> rows[j][x + 1]]

Returned(t, ret) == [T |-> t, ret |-> ret, err |-> "ok"]
Raised(t, e) == [T |-> t, ret |-> None, err |-> e]

\* the coordinate returned one column too far to the right
RowEndOffByOne(t, A, y) ==
    Returned([t EXCEPT ![y + 1] = Append(t[y + 1], A)], <<Len(t[y + 1]) + 1, y>>)

\* insert, nothing in row y bumped: row.append(A); return [len(row) - 1, y]
RowEnd(t, A, y) ==
    Returned([t EXCEPT ![y + 1] = Append(t[y + 1], A)], <<Len(t[y + 1]), y>>)

\* SuperMultiSetPartitionTableau.insert(A, parity, index) on the tableau t.
\* seen holds the calls of this chain so far: the chain is deterministic, so
\* it runs forever exactly when a call repeats ("diverges").
RECURSIVE insert(_, _, _, _, _)
insert(t, A, parity, index, seen) ==
    LET call == <<t, A, index>>
    IN
    IF call \in seen THEN Raised(t, "diverges")
    ELSE IF Len(t) = 0 THEN Returned(<<<<A>>>>, <<0, 0>>)
    ELSE IF parity = MS_parity(A)
    THEN \* row insertion
         LET y == index
         IN  IF y = Len(t) THEN Returned(Append(t, <<A>>), <<0, y>>)
             ELSE IF y > Len(t) THEN Raised(t, "IndexError")
             ELSE LET row == t[y + 1]
                      hits == {x \in 0..(Len(row) - 1) : Bumps(parity, row[x + 1], A)}
                  IN  IF hits # {}
                      THEN LET x == SetMin(hits)
                               B == row[x + 1]
                               new_index == IF MS_parity(B) = parity THEN y + 1 ELSE x + 1
                           IN  insert([t EXCEPT ![y + 1][x + 1] = A], B, parity,
                                      new_index, seen \cup {call})
                      ELSE RowEnd(t, A, y)
    ELSE \* column insertion
         LET x == index
         IN  IF x = Len(t[1])
             THEN Returned([t EXCEPT ![1] = Append(t[1], A)], <<Len(t[1]), 0>>)
             ELSE LET col == Column(t, x)
                      hits == {y \in 0..(Len(col) - 1) : Bumps(parity, col[y + 1], A)}
                  IN  IF hits # {}
                      THEN LET y == SetMin(hits)
                               B == col[y + 1]
                               new_index == IF MS_parity(B) = parity THEN y + 1 ELSE x + 1
                           IN  IF x >= Len(t[y + 1]) THEN Raised(t, "IndexError")
                               ELSE insert([t EXCEPT ![y + 1][x + 1] = A], B, parity,
                                           new_index, seen \cup {call})
                      ELSE LET y == Len(col)
                           IN  IF y < Len(t)
                               THEN Returned([t EXCEPT ![y + 1] = Append(t[y + 1], A)], <<x, y>>)
                               ELSE Returned(Append(t, <<A>>), <<x, y>>)

\* the test without its second half: the last cell of any row passes
NotLastOfRow(t, x, y) == Len(t[y + 1]) # x + 1

\* the test of a terminal extract: (x, y) is not a removable corner
NotCorner(t, x, y) ==
    Len(t[y + 1]) # x + 1 \/ (Len(t) > y + 1 /\ Len(t[y + 2]) >= Len(t[y + 1]))

\* SuperMultiSetPartitionTableau.extract(x, y, parity, value) on the tableau t;
\* value = None is the terminal extract. seen as in insert.
RECURSIVE extract(_, _, _, _, _, _)
extract(t, x, y, parity, value, seen) ==
    LET call == <<t, x, y, value>>
    IN
    IF call \in seen THEN Raised(t, "diverges")
    ELSE IF y >= Len(t) \/ x >= Len(t[y + 1]) THEN Raised(t, "IndexError")
    ELSE IF value = None /\ NotCorner(t, x, y) THEN Raised(t, "TypeError")
    ELSE
    LET A == t[y + 1][x + 1]
        cut == [t EXCEPT ![y + 1] = SubSeq(t[y + 1], 1, Len(t[y + 1]) - 1)]
        t2 == IF value = None
              THEN IF Len(cut[y + 1]) = 0 THEN SubSeq(cut, 1, Len(cut) - 1) ELSE cut
              ELSE [t EXCEPT ![y + 1][x + 1] = value]
    IN
    IF (parity = MS_parity(A) /\ y = 0) \/ (parity # MS_parity(A) /\ x = 0)
    THEN Returned(t2, A)
    ELSE IF parity = MS_parity(A)
    THEN \* A was row-inserted: bumped from the row below
         LET y0 == y - 1
             row == t2[y0 + 1]
             cands == {x0 \in 0..(Len(row) - 1) : Unbumps(parity, row[x0 + 1], A)}
         IN  IF cands # {}
             THEN extract(t2, SetMax(cands), y0, parity, A, seen \cup {call})
             ELSE Returned(t2, None)
    ELSE \* A was column-inserted: bumped from the column to the left
         LET x0 == x - 1
             col == Column(t2, x0)
             cands == {y0 \in 0..(Len(col) - 1) : Unbumps(parity, col[y0 + 1], A)}
         IN  IF cands # {}
             THEN extract(t2, x0, SetMax(cands), parity, A, seen \cup {call})
             ELSE Returned(t2, None)

RECURSIVE SumLen(_)
SumLen(t) == IF t = <<>> THEN 0 ELSE Len(t[1]) + SumLen(Tail(t))

\* the number of cells of a tableau
CellCount(t) == SumLen(t)

\* the cells of a tableau, as the code's coordinates
Cells(t) == {c \in (0..MaxCells) \X (0..MaxCells) :
                c[2] < Len(t) /\ c[1] < Len(t[c[2] + 1])}

(* ------------------------ SuperBiLetter, SuperBiWord ------------------ *)

\* SuperBiLetter.__init__: the pair [top, bottom] of multisets
SuperBiLetter(array) == <<SuperMultiSet(array[1]), SuperMultiSet(array[2])>>

\* SuperBiLetter.__eq__
BL_eq(v, w) == v = w

\* the bottoms compared as multisets whatever their parity
BL_lt_plain(v, w) ==
    LET a1 == v[1]
        b1 == v[2]
        a2 == w[1]
        b2 == w[2]
    IN  IF MS_lt(a1, a2) THEN TRUE
        ELSE IF ~MS_eq(a1, a2) THEN FALSE
        ELSE MS_lt(b1, b2)

\* SuperBiLetter.__lt__
BL_lt(v, w) ==
    LET a1 == v[1]
        b1 == v[2]
        a2 == w[1]
        b2 == w[2]
    IN  IF MS_lt(a1, a2) THEN TRUE
        ELSE IF ~MS_eq(a1, a2) THEN FALSE
        ELSE IF MS_parity(b1) # MS_parity(b2)
             THEN MS_parity(b1) = 1 /\ MS_parity(b2) = 0
        ELSE IF MS_parity(b1) = 0 /\ MS_parity(b2) = 0 THEN MS_lt(b1, b2)
        ELSE MS_gt(b1, b2)

RECURSIVE PlaceLetter(_, _)
PlaceLetter(s, v) ==
    IF s = <<>> THEN <<v>>
    ELSE IF BL_lt(v, s[1]) THEN <<v>> \o s
    ELSE <<s[1]>> \o PlaceLetter(Tail(s), v)

\* sorted(list of SuperBiLetter): ascending under SuperBiLetter.__lt__, stable
RECURSIVE SortedLetters(_)
SortedLetters(s) ==
    IF s = <<>> THEN <<>>
    ELSE PlaceLetter(SortedLetters(SubSeq(s, 1, Len(s) - 1)), s[Len(s)])

\* SuperBiWord.__init__ on a list of pairs of arrays
SuperBiWord(array) == [j \in 1..Len(array) |-> SuperBiLetter(array[j])]

\* SuperBiWord.is_ordered
is_ordered(word) == SortedLetters(word) = word

\* list.count
Count(word, w) == Cardinality({j \in 1..Len(word) : BL_eq(word[j], w)})

\* no repeated biletter makes the biword unrestricted
is_restricted_always(word) == TRUE

\* SuperBiWord.is_restricted
is_restricted(word) ==
    \A j \in 1..Len(word) :
        ~(Count(word, word[j]) > 1
          /\ MS_parity(word[j][1]) + MS_parity(word[j][2]) = 1)

(* ------------------------------ sRSK ---------------------------------- *)

\* max(list of SuperMultiSet)
RECURSIVE MaxMultiset(_)
MaxMultiset(s) ==
    IF Len(s) = 1 THEN s[1]
    ELSE LET m == MaxMultiset(SubSeq(s, 1, Len(s) - 1))
         IN  IF MS_gt(s[Len(s)], m) THEN s[Len(s)] ELSE m

\* q = max([max(row) for row in Q])
MaxOfTableau(t) == MaxMultiset([y \in 1..Len(t) |-> MaxMultiset(t[y])])

\* the cell of q the loops of _sRSK_inverse reach first: the rows from the
\* last to the first, each from its last cell to its first
FirstFromTop(t, q) ==
    LET ys == {y \in 0..(Len(t) - 1) : \E x \in 1..Len(t[y + 1]) : MS_eq(t[y + 1][x], q)}
        y == SetMax(ys)
        xs == {x \in 0..(Len(t[y + 1]) - 1) : MS_eq(t[y + 1][x + 1], q)}
    IN  <<SetMax(xs), y>>

\* the cell of Q that _sRSK_inverse extracts next
NextCell(t) == FirstFromTop(t, MaxOfTableau(t))

\* the top always put in a new row of Q
RecordNewRow(q, y, top) == Append(q, <<top>>)

\* sRSK's record of a biletter: its top goes on the end of row y of Q
Record(q, y, top) ==
    IF y < Len(q) THEN [q EXCEPT ![y + 1] = Append(q[y + 1], top)]
    ELSE Append(q, <<top>>)

\* _sRSK_inverse's removal of the node from Q
RemoveNode(q, y) ==
    IF Len(q[y + 1]) = 1 THEN SubSeq(q, 1, Len(q) - 1)
    ELSE [q EXCEPT ![y + 1] = SubSeq(q[y + 1], 1, Len(q[y + 1]) - 1)]

(* ------------------------------ inputs -------------------------------- *)

\* the signed integers compared as SuperValue, zero (unbarred) included
Values == (0 - MaxVal)..MaxVal

SeqsUpTo(S, n) == UNION {[1..m -> S] : m \in 0..n}

\* the elements and the input arrays of the multisets compared
Elements == {-2, -1, 0, 1, 2}
Arrays == SeqsUpTo(Elements, MaxMsLen)

\* the entries of tableaux and biletters: three of even parity, two of odd,
\* [] < [1] < [-1] < [1, -1] < [-1, -1]
EntryArrays == {<<>>, <<1>>, <<-1>>, <<1, -1>>, <<-1, -1>>}
Entries == {SuperMultiSet(a) : a \in EntryArrays}
Letters == Entries \X Entries
Words == SeqsUpTo(Letters, MaxWordLen)

\* the biletters of the class's example (SuperBiWord.__init__, sRSK)
DocLetters == {SuperBiLetter(<< <<1, 2>>, <<2>> >>), SuperBiLetter(<< <<-1>>, <<-1>> >>),
               SuperBiLetter(<< <<-1>>, <<1, 2>> >>), SuperBiLetter(<< <<2>>, <<-1, -2>> >>)}
DocWords == SeqsUpTo(DocLetters, Cardinality(DocLetters))

NoCmp == [kind |-> "none"]
NoOp == [kind |-> "none"]

(* ------------------------------ sRSK, stepwise ------------------------ *)

InitRSK ==
    /\ biword \in Words \cup DocWords
    /\ pc = "call"
    /\ P = <<>> /\ Q = <<>> /\ k = 0
    /\ iP = <<>> /\ iQ = <<>> /\ out = <<>>
    /\ cmp = NoCmp /\ T = <<>> /\ op = NoOp /\ ex = NoOp

\* sRSK up to its loop: the check of the precondition, then P and Q empty
Validate ==
    /\ pc = "call"
    /\ IF ~is_ordered(biword) \/ ~is_restricted(biword)
       THEN pc' = "rejected"
       ELSE pc' = "insert"
    /\ UNCHANGED <<cmp, T, op, ex, biword, P, Q, k, iP, iQ, out>>

\* one turn of sRSK's loop: the biletter biword[k] goes into P and Q
InsertLetter ==
    /\ pc = "insert"
    /\ k < Len(biword)
    /\ LET w == biword[k + 1]
           r == insert(P, w[2], MS_parity(w[1]), 0, {})
       IN  IF r.err # "ok"
           THEN pc' = "failed" /\ UNCHANGED <<P, Q, k>>
           ELSE /\ P' = r.T
                /\ Q' = Record(Q, r.ret[2], w[1])
                /\ k' = k + 1
                /\ pc' = pc
    /\ UNCHANGED <<cmp, T, op, ex, biword, iP, iQ, out>>

\* sRSK returns [P, Q]; sRSK_inverse is called on them and copies them
CallInverse ==
    /\ pc = "insert"
    /\ k = Len(biword)
    /\ pc' = "inverse"
    /\ iP' = SMPT_copy(P)
    /\ iQ' = SMPT_copy(Q)
    /\ UNCHANGED <<cmp, T, op, ex, biword, P, Q, k, out>>

\* one call of _sRSK_inverse: the largest, last inserted node of Q is
\* extracted from P and removed from Q
InverseStep ==
    /\ pc = "inverse"
    /\ Len(iP) > 0
    /\ IF Len(iQ) = 0 \/ \E y \in 1..Len(iQ) : Len(iQ[y]) = 0
       THEN pc' = "failed" /\ UNCHANGED <<iP, iQ, out>>
       ELSE LET q == MaxOfTableau(iQ)
                c == NextCell(iQ)
                r == extract(iP, c[1], c[2], MS_parity(q), None, {})
            IN  IF r.err # "ok"
                THEN pc' = "failed" /\ UNCHANGED <<iP, iQ, out>>
                ELSE /\ iP' = r.T
                     /\ iQ' = RemoveNode(iQ, c[2])
                     /\ out' = << <<q, r.ret>> >> \o out
                     /\ pc' = pc
    /\ UNCHANGED <<cmp, T, op, ex, biword, P, Q, k>>

\* P is empty: the biword is built from the recovered pairs
ReturnInverse ==
    /\ pc = "inverse"
    /\ Len(iP) = 0
    /\ IF \E j \in 1..Len(out) : out[j][2] = None
       THEN pc' = "failed"
       ELSE pc' = "done"
    /\ UNCHANGED <<cmp, T, op, ex, biword, P, Q, k, iP, iQ, out>>

NextRSK == Validate \/ InsertLetter \/ CallInverse \/ InverseStep \/ ReturnInverse

SpecRSK == InitRSK /\ [][NextRSK]_vars

(* ------------------------ insert and extract, call by call ------------ *)

\* the tableau of sRSK_inverse's example; it is also what 0-insertion of
\* [1], [1], [2], [-1], [-2] into the empty tableau builds
DocP == << << <<1>>, <<1>>, <<2>> >>, << <<-1>> >>, << <<-2>> >> >>

InitTab ==
    /\ T \in {SMPT(<<>>), SMPT(DocP)}
    /\ op = NoOp /\ ex = NoOp
    /\ pc = "tableau"
    /\ cmp = NoCmp /\ biword = <<>>
    /\ P = <<>> /\ Q = <<>> /\ k = 0
    /\ iP = <<>> /\ iQ = <<>> /\ out = <<>>

\* T.insert(A, parity): op keeps the call, the tableau before it and its result
Insert(A, parity) ==
    /\ pc = "tableau"
    /\ ex = NoOp
    /\ CellCount(T) < MaxCells
    /\ LET r == insert(T, A, parity, 0, {})
       IN  /\ T' = r.T
           /\ op' = [kind |-> "insert", A |-> A, parity |-> parity,
                     before |-> T, ret |-> r.ret, err |-> r.err]
    /\ UNCHANGED <<cmp, ex, biword, pc, P, Q, k, iP, iQ, out>>

\* SMPT(T._tableau).extract(x, y, parity): a terminal extract on a copy of T,
\* the last call of a run; ex keeps the call, the copy before and after it
\* and its result
Extract(x, y, parity) ==
    /\ pc = "tableau"
    /\ ex = NoOp
    /\ LET X == SMPT_copy(T)
           r == extract(X, x, y, parity, None, {})
       IN  ex' = [kind |-> "extract", x |-> x, y |-> y, parity |-> parity,
                  before |-> X, after |-> r.T, ret |-> r.ret, err |-> r.err]
    /\ UNCHANGED <<cmp, T, op, biword, pc, P, Q, k, iP, iQ, out>>

\* an insert call, of any entry with either parity
InsertCall == \E A \in Entries, parity \in {0, 1} : Insert(A, parity)

\* a terminal extract, at any cell with either parity
ExtractCall == \E c \in Cells(T), parity \in {0, 1} : Extract(c[1], c[2], parity)

NextTab == InsertCall \/ ExtractCall

SpecTab == InitTab /\ [][NextTab]_vars

(* ------------------------ the two orders, call by call ---------------- *)

InitOrd ==
    /\ cmp = NoCmp
    /\ pc = "order"
    /\ T = <<>> /\ op = NoOp /\ ex = NoOp /\ biword = <<>>
    /\ P = <<>> /\ Q = <<>> /\ k = 0
    /\ iP = <<>> /\ iQ = <<>> /\ out = <<>>

\* SuperValue(a) < SuperValue(b) and the other comparisons of a, b and c
CompareValues(a, b, c) ==
    /\ pc = "order"
    /\ cmp = NoCmp
    /\ cmp' = [kind |-> "values", a |-> a, b |-> b, c |-> c,
               aa |-> SuperValue_lt(a, a), ab |-> SuperValue_lt(a, b),
               ba |-> SuperValue_lt(b, a), bc |-> SuperValue_lt(b, c),
               ac |-> SuperValue_lt(a, c)]
    /\ UNCHANGED <<T, op, ex, biword, pc, P, Q, k, iP, iQ, out>>

\* SuperMultiSet(arrA) < SuperMultiSet(arrB), its converse and ==
CompareMultisets(arrA, arrB) ==
    /\ pc = "order"
    /\ cmp = NoCmp
    /\ LET A == SuperMultiSet(arrA)
           B == SuperMultiSet(arrB)
       IN  cmp' = [kind |-> "multisets", arrA |-> arrA, arrB |-> arrB,
                   A |-> A, B |-> B,
                   ab |-> MS_lt(A, B), ba |-> MS_lt(B, A), eq |-> MS_eq(A, B)]
    /\ UNCHANGED <<T, op, ex, biword, pc, P, Q, k, iP, iQ, out>>

\* one comparison of values, of any three of them
ValuesCall ==
    /\ cmp = NoCmp
    /\ \E a, b, c \in Values : CompareValues(a, b, c)

\* one comparison of multisets, of any two input arrays
MultisetsCall ==
    /\ cmp = NoCmp
    /\ \E arrA, arrB \in Arrays : CompareMultisets(arrA, arrB)

NextOrd == ValuesCall \/ MultisetsCall

SpecOrd == InitOrd /\ [][NextOrd]_vars

\* insert calls on one tableau, and sRSK on a biword
NextAll ==
    \/ InsertCall \/ ExtractCall
    \/ Validate \/ InsertLetter \/ CallInverse \/ InverseStep \/ ReturnInverse

SpecAll == (InitTab \/ InitRSK) /\ [][NextAll]_vars

(* ============================ properties ============================== *)

Shape(t) == [y \in 1..Len(t) |-> Len(t[y])]

Abs(v) == IF v < 0 THEN 0 - v ELSE v

\* C7: SuperValue's < is a strict total order (irreflexive, transitive,
\* exactly one of a < b, b < a for distinct a, b), every non-negative value
\* is less than every negative one, and of two negative values the one of
\* smaller magnitude is the lesser (-1 < -3).
C7_ValueOrder ==
    cmp.kind = "values" =>
        /\ ~cmp.aa
        /\ (cmp.ab /\ cmp.bc => cmp.ac)
        /\ (cmp.a # cmp.b => (cmp.ab /\ ~cmp.ba) \/ (~cmp.ab /\ cmp.ba))
        /\ (cmp.a = cmp.b => ~cmp.ab /\ ~cmp.ba)
        /\ (cmp.a >= 0 /\ cmp.b < 0 => cmp.ab /\ ~cmp.ba)
        /\ (cmp.a < 0 /\ cmp.b < 0 => (cmp.ab <=> Abs(cmp.a) < Abs(cmp.b)))
        /\ (cmp.a >= 0 /\ cmp.b >= 0 => (cmp.ab <=> cmp.a < cmp.b))

C7_Witness ==
    cmp.kind = "values" /\ cmp.a = -1 /\ cmp.b = -3 /\ cmp.c = 1 /\ cmp.ab /\ ~cmp.ac

\* the elements of an array from the largest to the smallest in the order
\* of SuperValue, found by picking the largest of what is left
RECURSIVE Decreasing(_)
Decreasing(arr) ==
    IF arr = <<>> THEN <<>>
    ELSE LET j == CHOOSE i \in 1..Len(arr) :
                     \A h \in 1..Len(arr) : ~SuperValue_lt(arr[i], arr[h])
             rest == [h \in 1..(Len(arr) - 1) |-> IF h < j THEN arr[h] ELSE arr[h + 1]]
         IN  <<arr[j]>> \o Decreasing(rest)

\* lexicographic comparison of two lists of values, a proper prefix smaller
RECURSIVE LexLess(_, _)
LexLess(u, v) ==
    IF v = <<>> THEN FALSE
    ELSE IF u = <<>> THEN TRUE
    ELSE IF SuperValue_lt(u[1], v[1]) THEN TRUE
    ELSE IF SuperValue_lt(v[1], u[1]) THEN FALSE
    ELSE LexLess(Tail(u), Tail(v))

\* the value the comparison looks at after i elements are peeled off
Peeled(A, i) == MaxValue(SubSeq(MS_list(A), 1, MS_len(A) - i))

\* C8: A < B on multisets is the lexicographic comparison of their elements
\* listed in decreasing order, a proper prefix smaller; at step i the value
\* compared is the (i+1)-th largest; A < B and B < A never both hold, and
\* neither holds when A == B.
C8_MultisetOrder ==
    cmp.kind = "multisets" =>
        /\ cmp.ab = LexLess(Decreasing(cmp.arrA), Decreasing(cmp.arrB))
        /\ cmp.ba = LexLess(Decreasing(cmp.arrB), Decreasing(cmp.arrA))
        /\ \A i \in 0..(Len(cmp.arrA) - 1) : Peeled(cmp.A, i) = Decreasing(cmp.arrA)[i + 1]
        /\ ~(cmp.ab /\ cmp.ba)
        /\ (cmp.eq => ~cmp.ab /\ ~cmp.ba)

C8_Witness ==
    /\ cmp.kind = "multisets"
    /\ cmp.arrA = <<-2, 1>> /\ cmp.arrB = <<-1, -2>>
    /\ cmp.ab /\ ~cmp.ba

\* C1: sRSK then sRSK_inverse on an ordered, restricted biword ends without
\* an error and returns the biword, letter for letter in the same order.
C1_RoundTrip ==
    /\ pc # "failed"
    /\ (pc = "done" => out = biword)

\* C2: after each biletter of sRSK, P and Q have the same number of rows
\* and the same length in every row.
C2_SameShape ==
    pc \in {"insert", "inverse", "done", "failed"} => Shape(P) = Shape(Q)

C2_Witness ==
    /\ pc = "insert" /\ k = 3
    /\ Shape(P) = <<2, 1>> /\ Shape(Q) = <<2, 1>>

DocGiven ==
    SuperBiWord(<< << <<1, 2>>, <<2>> >>, << <<-1>>, <<-1>> >>,
                   << <<-1>>, <<1, 2>> >>, << <<2>>, <<-1, -2>> >> >>)

DocOrdered ==
    SuperBiWord(<< << <<2>>, <<-1, -2>> >>, << <<1, 2>>, <<2>> >>,
                   << <<-1>>, <<-1>> >>, << <<-1>>, <<1, 2>> >> >>)

\* P and Q of the example, from the insertion rules applied by hand
GoldenP == SMPT(<< << <<2>>, <<-1>> >>, << <<1, 2>>, <<-1, -2>> >> >>)
GoldenQ == SMPT(<< << <<2>>, <<-1>> >>, << <<1, 2>>, <<-1>> >> >>)

\* C3 as stated: sRSK on the example's biletters in the order [[1,2],[2]],
\* [[-1],[-1]], [[-1],[1,2]], [[2],[-1,-2]] succeeds.
C3_GivenOrderAccepted ==
    biword = DocGiven => pc # "rejected"

\* C3, amended: in the stated order the biword is not ordered and sRSK
\* rejects it; in the order [[2],[-1,-2]], [[1,2],[2]], [[-1],[-1]],
\* [[-1],[1,2]] sRSK succeeds and returns the P and Q of the step-by-step
\* simulation, and sRSK_inverse on them returns that biword in that order.
C3_Example ==
    /\ (biword = DocGiven /\ pc # "call" => pc = "rejected")
    /\ (biword = DocOrdered =>
            /\ pc \notin {"rejected", "failed"}
            /\ (pc = "insert" /\ k = 1 => P = SMPT(<< << <<-1, -2>> >> >>))
            /\ (pc = "insert" /\ k = 2 =>
                    P = SMPT(<< << <<2>> >>, << <<-1, -2>> >> >>))
            /\ (pc = "insert" /\ k = 3 =>
                    P = SMPT(<< << <<2>>, <<-1>> >>, << <<-1, -2>> >> >>))
            /\ (pc \in {"inverse", "done"} => P = GoldenP /\ Q = GoldenQ)
            /\ (pc = "done" => out = DocOrdered))

C3_Witness ==
    biword = DocOrdered /\ pc = "done" /\ P = GoldenP /\ out = DocOrdered

\* some biletter with top parity + bottom parity = 1 occurs twice
OddLetterTwice(word) ==
    \E i, j \in 1..Len(word) :
        /\ i < j
        /\ word[i] = word[j]
        /\ (MS_parity(word[i][1]) + MS_parity(word[i][2])) % 2 = 1

\* each biletter is no greater than the next
InOrder(word) == \A j \in 1..(Len(word) - 1) : ~BL_lt(word[j + 1], word[j])

\* C4: on a biword that is not ordered or not restricted sRSK fails before
\* any insertion (P and Q are never built); a biword in which a biletter of
\* parity sum 1 occurs twice is not restricted and makes sRSK fail.
C4_Rejection ==
    /\ (OddLetterTwice(biword) => ~is_restricted(biword))
    /\ (pc \notin {"call", "tableau", "order"}
        /\ (~InOrder(biword) \/ OddLetterTwice(biword))
            => pc = "rejected" /\ P = <<>> /\ Q = <<>> /\ k = 0)

C4_Witness ==
    /\ pc = "rejected"
    /\ InOrder(biword) /\ OddLetterTwice(biword)
    /\ P = <<>> /\ Q = <<>>

\* C5: a terminal extract at a cell that is not the last of its row, or
\* whose row has a row at least as long above it, fails with the corner
\* error and leaves the tableau as it was.
C5_CornerRejection ==
    ex.kind = "extract"
    /\ ( Len(ex.before[ex.y + 1]) # ex.x + 1
         \/ ( Len(ex.before) > ex.y + 1
              /\ Len(ex.before[ex.y + 2]) >= Len(ex.before[ex.y + 1]) ) )
        => ex.err = "TypeError" /\ ex.after = ex.before

\* the example: the first cell of the first row of [[1],[1],[2]] / [-1] / [-2]
C5_Witness ==
    /\ ex.kind = "extract" /\ ex.before = SMPT(DocP)
    /\ ex.x = 0 /\ ex.y = 0
    /\ ex.err = "TypeError" /\ ex.after = SMPT(DocP)

\* the shape grew by the one cell (x, y): row y one longer, or new as <<1>>
GrewBy(before, after, x, y) ==
    /\ y < Len(after)
    /\ Len(after[y + 1]) = x + 1
    /\ IF y < Len(before)
       THEN Shape(after) = [Shape(before) EXCEPT ![y + 1] = @ + 1]
       ELSE Shape(after) = Append(Shape(before), 1) /\ x = 0

\* C6: every insert(A, parity) on a tableau built by insert calls ends, and
\* returns the one cell by which the shape grew: one cell more in all, and
\* the returned (x, y) the last cell of row y.
C6_InsertReturnsNewCell ==
    op.kind = "insert" =>
        /\ op.err = "ok"
        /\ CellCount(T) = CellCount(op.before) + 1
        /\ GrewBy(op.before, T, op.ret[1], op.ret[2])

\* an insert that bumped twice and ended in a row above the first
C6_Witness ==
    /\ op.kind = "insert" /\ op.err = "ok"
    /\ op.ret = <<1, 1>>
    /\ CellCount(T) = 4
    /\ T[1] # op.before[1] /\ T[2][1] # op.before[2][1]

\* C9: a terminal extract at the cell an insert(A, p) returned, with the
\* same p, succeeds, returns A and leaves the tableau as it was before
\* the insert.
C9_ExtractUndoesInsert ==
    op.kind = "insert" /\ ex.kind = "extract"
    /\ <<ex.x, ex.y>> = op.ret /\ ex.parity = op.parity
        => /\ ex.err = "ok"
           /\ ex.ret # None
           /\ ex.ret = op.A
           /\ ex.after = op.before

\* the insert bumped (the cell that came is not A's) and the extract undid it
C9_Witness ==
    /\ op.kind = "insert" /\ ex.kind = "extract"
    /\ <<ex.x, ex.y>> = op.ret /\ ex.parity = op.parity
    /\ ex.before[ex.y + 1][ex.x + 1] # op.A
    /\ ex.ret = op.A /\ ex.after = op.before
    /\ CellCount(op.before) = 3

Semistandard(t) ==
    /\ \A y \in 1..Len(t) : Len(t[y]) > 0
    /\ \A y \in 1..(Len(t) - 1) : Len(t[y + 1]) <= Len(t[y])
    /\ \A y \in 1..Len(t) : \A x \in 1..(Len(t[y]) - 1) :
           /\ ~MS_lt(t[y][x + 1], t[y][x])
           /\ (t[y][x] = t[y][x + 1] => MS_parity(t[y][x]) = 0)
    /\ \A y \in 1..(Len(t) - 1) : \A x \in 1..Len(t[y + 1]) :
           x <= Len(t[y]) =>
               /\ ~MS_lt(t[y + 1][x], t[y][x])
               /\ (t[y][x] = t[y + 1][x] => MS_parity(t[y][x]) = 1)

\* C10: after every insert call, of sRSK on P or of any sequence of insert
\* calls on a tableau that began empty, the tableau has no empty row, rows
\* of weakly decreasing length, entries weakly increasing along rows and
\* columns, equal neighbours in a row of parity 0 and equal neighbours in a
\* column of parity 1.
C10_Semistandard == Semistandard(T) /\ Semistandard(P)

C10_Witness ==
    /\ pc = "insert" /\ k = 3 /\ Shape(P) = <<2, 1>>
    /\ P[1][1] = P[1][2] /\ MS_lt(P[1][1], P[2][1])
    /\ Semistandard(P)

====
